---- MODULE Spec2Model ----
(***************************************************************************)
(* A model of tmi-cli: the project bootstrap (src/commands/init-rn.js),    *)
(* the feature generator (src/generate-feature.js) and the umbrella CLI    *)
(* (src/index.js).                                                         *)
(*                                                                         *)
(* Text is a sequence of one-character strings, a path is a sequence of    *)
(* names (each a text), and the file system is a function from the paths   *)
(* that exist to their nodes.                                              *)
(***************************************************************************)
EXTENDS Integers, Sequences, FiniteSets, TLC

\* ------------------------------------------------------------------ text

\* A JavaScript string as the sequence of its characters.
Chars(s) == [i \in 1..Len(s) |-> SubSeq(s, i, i)]

LowerLetters == Chars("abcdefghijklmnopqrstuvwxyz")
UpperLetters == Chars("ABCDEFGHIJKLMNOPQRSTUVWXYZ")
Digits == Chars("0123456789")

Range(f) == {f[i] : i \in DOMAIN f}

IsLower(c) == c \in Range(LowerLetters)
IsUpper(c) == c \in Range(UpperLetters)
IsLetter(c) == IsLower(c) \/ IsUpper(c)
IsDigit(c) == c \in Range(Digits)

\* String.prototype.toUpperCase / toLowerCase on one character.
ToUpperChar(c) ==
  IF IsLower(c)
    THEN UpperLetters[CHOOSE i \in DOMAIN LowerLetters : LowerLetters[i] = c]
    ELSE c

ToLowerChar(c) ==
  IF IsUpper(c)
    THEN LowerLetters[CHOOSE i \in DOMAIN UpperLetters : UpperLetters[i] = c]
    ELSE c

ToLowerCase(s) == [i \in DOMAIN s |-> ToLowerChar(s[i])]

\* The part of s from position i on.
From(s, i) == SubSeq(s, i, Len(s))

\* s has t at position i.
HasAt(s, t, i) == i + Len(t) - 1 <= Len(s) /\ SubSeq(s, i, i + Len(t) - 1) = t

\* String.prototype.includes.
Includes(s, t) == \E i \in 1..(Len(s) + 1) : HasAt(s, t, i)

\* ---------------------------------------------------------------- RegExp

\* What an unescaped "." of a pattern compiles to.
AnyChar == "ANY"

\* \s of a pattern, over the characters the model uses.
IsSpace(c) == c \in {" ", "\n", "\t", "\r"}

\* new RegExp(src): the patterns of this program are sequences of literal
\* characters, escaped characters ("\\." is a literal dot) and unescaped
\* dots (any character but a line terminator).
RECURSIVE CompilePattern(_)
CompilePattern(src) ==
  IF src = <<>> THEN <<>>
  ELSE IF src[1] = "\\" /\ Len(src) >= 2
    THEN <<src[2]>> \o CompilePattern(From(src, 3))
  ELSE IF src[1] = "."
    THEN <<AnyChar>> \o CompilePattern(From(src, 2))
  ELSE <<src[1]>> \o CompilePattern(From(src, 2))

ElemMatches(p, c) == IF p = AnyChar THEN c \notin {"\n", "\r"} ELSE p = c

\* The compiled pattern pat matches text at position i.
MatchesAt(text, pat, i) ==
  /\ i + Len(pat) - 1 <= Len(text)
  /\ \A k \in 1..Len(pat) : ElemMatches(pat[k], text[i + k - 1])

\* text.replace(new RegExp(src, 'g'), to): every match, left to right,
\* matches not overlapping.
RECURSIVE ReplaceFrom(_, _, _, _)
ReplaceFrom(text, pat, to, i) ==
  IF i > Len(text) THEN <<>>
  ELSE IF pat # <<>> /\ MatchesAt(text, pat, i)
    THEN to \o ReplaceFrom(text, pat, to, i + Len(pat))
  ELSE <<text[i]>> \o ReplaceFrom(text, pat, to, i + 1)

RegExpReplaceAll(text, src, to) == ReplaceFrom(text, CompilePattern(src), to, 1)

\* ------------------------------------------------------------ case forms

IsSeparator(c) == c \in {"-", "_"} \/ IsSpace(c)

\* The end (exclusive) of the run of separators that starts at i.
RECURSIVE SepRunEnd(_, _)
SepRunEnd(s, i) ==
  IF i <= Len(s) /\ IsSeparator(s[i]) THEN SepRunEnd(s, i + 1) ELSE i

\* str.replace(/[-_\s]+(.)?/g, (_, c) => (c ? c.toUpperCase() : ''))
RECURSIVE PascalFrom(_, _)
PascalFrom(s, i) ==
  IF i > Len(s) THEN <<>>
  ELSE IF IsSeparator(s[i])
    THEN LET j == SepRunEnd(s, i)
         IN  IF j <= Len(s)
               THEN <<ToUpperChar(s[j])>> \o PascalFrom(s, j + 1)
               ELSE <<>>
  ELSE <<s[i]>> \o PascalFrom(s, i + 1)

UpperFirst(s) == IF s = <<>> THEN <<>> ELSE <<ToUpperChar(s[1])>> \o Tail(s)

toPascalCase(str) == UpperFirst(PascalFrom(str, 1))

\* str.replace(/([a-z])([A-Z])/g, '$1-$2')
RECURSIVE HyphenateFrom(_, _)
HyphenateFrom(s, i) ==
  IF i > Len(s) THEN <<>>
  ELSE IF i < Len(s) /\ IsLower(s[i]) /\ IsUpper(s[i + 1])
    THEN <<s[i], "-", s[i + 1]>> \o HyphenateFrom(s, i + 2)
  ELSE <<s[i]>> \o HyphenateFrom(s, i + 1)

\* .replace(/[\s_]+/g, '-')
RECURSIVE DashRunsFrom(_, _)
DashRunsFrom(s, i) ==
  IF i > Len(s) THEN <<>>
  ELSE IF s[i] = "_" \/ IsSpace(s[i])
    THEN IF i > 1 /\ (s[i - 1] = "_" \/ IsSpace(s[i - 1]))
           THEN DashRunsFrom(s, i + 1)
           ELSE <<"-">> \o DashRunsFrom(s, i + 1)
  ELSE <<s[i]>> \o DashRunsFrom(s, i + 1)

toKebabCase(str) == ToLowerCase(DashRunsFrom(HyphenateFrom(str, 1), 1))

\* validateProjectName: TRUE when the name is accepted (null is returned).
validateProjectName(name) ==
  /\ name # <<>>
  /\ IsLetter(name[1])
  /\ \A i \in DOMAIN name : IsLetter(name[i]) \/ IsDigit(name[i]) \/ name[i] \in {"_", "-"}
  /\ Len(name) >= 2
  /\ Len(name) <= 50

\* The segments of s between the dots.
RECURSIVE SplitDots(_, _, _)
SplitDots(s, i, cur) ==
  IF i > Len(s) THEN <<cur>>
  ELSE IF s[i] = "." THEN <<cur>> \o SplitDots(s, i + 1, <<>>)
  ELSE SplitDots(s, i + 1, Append(cur, s[i]))

IsBundleSegment(seg) ==
  /\ seg # <<>>
  /\ IsLower(seg[1])
  /\ \A i \in DOMAIN seg : IsLower(seg[i]) \/ IsDigit(seg[i])

\* validateBundleId: /^[a-z][a-z0-9]*(\.[a-z][a-z0-9]*)+$/
validateBundleId(bundleId) ==
  /\ bundleId # <<>>
  /\ LET segs == SplitDots(bundleId, 1, <<>>)
     IN  Len(segs) >= 2 /\ \A k \in DOMAIN segs : IsBundleSegment(segs[k])

\* ---------------------------------------------------------- file system

\* A node of the file system: a directory, a regular file, or another kind
\* of entry (a symbolic link, a socket), with the content of a file.
DirNode == [kind |-> "dir", content |-> <<>>]
FileNode(content) == [kind |-> "file", content |-> content]
OtherNode == [kind |-> "other", content |-> <<>>]

\* path.join(dirPath, name)
Join(dirPath, name) == Append(dirPath, name)

Parent(p) == SubSeq(p, 1, Len(p) - 1)
BaseName(p) == p[Len(p)]

\* p is q or lies under q.
IsUnder(p, q) == Len(q) <= Len(p) /\ SubSeq(p, 1, Len(q)) = q

\* fs.existsSync
existsSync(f, p) == p \in DOMAIN f

IsDir(f, p) == p \in DOMAIN f /\ f[p].kind = "dir"

\* fs.readdirSync(dirPath, {withFileTypes: true}): the entries as Dirents.
readdirSync(f, dirPath) ==
  {[name |-> BaseName(p), kind |-> f[p].kind] :
     p \in {q \in DOMAIN f : Len(q) = Len(dirPath) + 1 /\ IsUnder(q, dirPath)}}

\* fs.rmSync(p, {recursive: true, force: true})
rmSync(f, p) == [q \in {r \in DOMAIN f : ~IsUnder(r, p)} |-> f[q]]

\* fs.writeFileSync succeeds when the parent is a directory and the path is
\* no directory.
CanWrite(f, p) == IsDir(f, Parent(p)) /\ ~IsDir(f, p)

writeFileSync(f, p, content) ==
  [q \in DOMAIN f \cup {p} |-> IF q = p THEN FileNode(content) ELSE f[q]]

\* fs.mkdirSync(dir, {recursive: true}) succeeds when no component of the
\* path is something other than a directory.
CanMkdir(f, dir) ==
  \A k \in 0..Len(dir) :
    LET q == SubSeq(dir, 1, k) IN q \in DOMAIN f => f[q].kind = "dir"

mkdirSync(f, dir) ==
  [q \in DOMAIN f \cup {SubSeq(dir, 1, k) : k \in 0..Len(dir)} |->
     IF q \in DOMAIN f THEN f[q] ELSE DirNode]

HasChildren(f, p) == \E q \in DOMAIN f : q # p /\ IsUnder(q, p)

\* fs.renameSync(oldPath, newPath) succeeds when the old path exists and the
\* new path is free, is the old path, or is an entry the old one may replace
\* (a file by a non-directory, a directory by an empty directory).
CanRename(f, oldPath, newPath) ==
  /\ oldPath \in DOMAIN f
  /\ IsDir(f, Parent(newPath))
  /\ \/ newPath \notin DOMAIN f
     \/ newPath = oldPath
     \/ f[oldPath].kind # "dir" /\ f[newPath].kind # "dir"
     \/ f[oldPath].kind = "dir" /\ f[newPath].kind = "dir" /\ ~HasChildren(f, newPath)

Moved(q, oldPath, newPath) == newPath \o SubSeq(q, Len(oldPath) + 1, Len(q))

renameSync(f, oldPath, newPath) ==
  IF oldPath = newPath THEN f
  ELSE LET kept == {q \in DOMAIN f : ~IsUnder(q, oldPath) /\ ~IsUnder(q, newPath)}
           moved == {q \in DOMAIN f : IsUnder(q, oldPath)}
       IN  [q \in kept \cup {Moved(r, oldPath, newPath) : r \in moved} |->
              IF q \in kept
                THEN f[q]
                ELSE f[oldPath \o SubSeq(q, Len(newPath) + 1, Len(q))]]

\* --------------------------------------------------- substitution engine

\* path.extname of a base name: from its last dot on, empty when there is
\* no dot or the only dot leads the name.
extname(name) ==
  LET dots == {i \in DOMAIN name : name[i] = "."}
  IN  IF dots = {} THEN <<>>
      ELSE LET k == CHOOSE i \in dots : \A j \in dots : j <= i
           IN  IF k = 1 THEN <<>> ELSE From(name, k)

\* The default of replaceInDirectory's extensions parameter.
extensions ==
  {Chars(e) : e \in {".json", ".js", ".ts", ".tsx", ".java", ".kt", ".m", ".h",
                     ".swift", ".pbxproj", ".plist", ".xml", ".gradle", ".xcconfig",
                     ".xcscheme", ".xcworkspacedata", ".storyboard", ".entitlements"}}

\* The directory names replaceInDirectory does not descend into.
WalkerExcluded ==
  {Chars(e) : e \in {"node_modules", ".git", ".yarn", "Pods", "build", ".beads",
                     ".claude", ".cursor", ".github", "conductor", "docs", "history",
                     "mayor", "polecats", "refinery"}}

\* A variant of the test that passes over the dependency directories only
\* at the root of the walk.
WalkerSkipsAtRoot(dirPath, name) == dirPath = <<>> /\ name \in WalkerExcluded

\* The test of replaceInDirectory on a directory entry of dirPath.
WalkerSkips(dirPath, name) == name \in WalkerExcluded

\* The directory names renameFilesAndFolders does not descend into.
RenamerExcluded ==
  {Chars(e) : e \in {"node_modules", ".git", ".yarn", "Pods", "build"}}

\* The test of renameFilesAndFolders on a directory entry.
RenamerSkips(name) == name \in RenamerExcluded

oldName == Chars("TMI")
oldBundleId == Chars("com.tmi.app")
oldBundleIdDev == Chars("com.tmisoft.app.dev")
oldBundleIdStaging == Chars("com.tmisoft.app.staging")
oldBundleIdProd == Chars("com.tmisoft.app")

\* The replacements object of initReactNative, in the order Object.entries
\* gives its keys (insertion order): <<pattern source, replacement>>.
replacements(pascalName, kebabName, bundleId, displayName) ==
  << <<Chars("TMI\\.app"), pascalName \o Chars(".app")>>,
     <<Chars("TMI\\.xcodeproj"), pascalName \o Chars(".xcodeproj")>>,
     <<Chars("TMI\\.xcworkspace"), pascalName \o Chars(".xcworkspace")>>,
     <<oldName, pascalName>>,
     <<Chars("tmi-rn-base"), kebabName>>,
     <<Chars("tmi_rn_base"), RegExpReplaceAll(kebabName, Chars("-"), Chars("_"))>>,
     <<oldBundleIdDev, bundleId \o Chars(".dev")>>,
     <<oldBundleIdStaging, bundleId \o Chars(".staging")>>,
     <<oldBundleIdProd, bundleId>>,
     <<oldBundleId, bundleId>>,
     <<Chars("com\\.tmisoft\\.base"), bundleId>>,
     <<Chars("\"displayName\": \"TMI\""),
       Chars("\"displayName\": \"") \o displayName \o Chars("\"")>> >>

\* The loop of replaceInFile: rule k sees the output of rule k - 1.
RECURSIVE ApplyRules(_, _, _)
ApplyRules(content, rules, k) ==
  IF k > Len(rules) THEN content
  ELSE ApplyRules(RegExpReplaceAll(content, rules[k][1], rules[k][2]), rules, k + 1)

\* A variant that computes the new content and never writes it back.
replaceInFileNoWrite(f, filePath, rules) == f

\* replaceInFile(filePath, replacements)
replaceInFile(f, filePath, rules) ==
  IF ~existsSync(f, filePath) THEN f
  ELSE writeFileSync(f, filePath, ApplyRules(f[filePath].content, rules, 1))

\* A variant without the test for the Podfile.
IsSubstitutableByExtension(name) == extname(name) \in extensions

\* The test of replaceInDirectory on a regular file.
IsSubstitutable(name) == extname(name) \in extensions \/ name = Chars("Podfile")

\* ------------------------------------------------------------- the state

VARIABLES
  fs,        \* the file system: path -> node
  fs0,       \* the file system the run started from
  pc,        \* where the running program is
  stack,     \* the frames of the recursive traversal under way, or the
             \* statements of the generator script still to run
  params,    \* the arguments and answers of the run, and what it derived
  trace,     \* what the run did so far: paths read or written, directory
             \* names entered and passed over, calls on paths that are gone
  exitCode   \* the exit code of the process, -1 while it runs

vars == <<fs, fs0, pc, stack, params, trace, exitCode>>

NoItem == [name |-> <<>>, kind |-> "none"]

\* The frame of one call of a traversal: its directory, the entries of its
\* readdirSync snapshot still to visit, the directory entry whose recursive
\* call is under way.
Frame(f, dirPath) == [dir |-> dirPath, items |-> readdirSync(f, dirPath), cur |-> NoItem]

Top == stack[Len(stack)]
Pop == SubSeq(stack, 1, Len(stack) - 1)
SetTop(fr) == [stack EXCEPT ![Len(stack)] = fr]

EmptyTrace ==
  [touched |-> {}, walkEntered |-> {}, walkPruned |-> {},
   renEntered |-> {}, renPruned |-> {}, stale |-> FALSE, events |-> <<>>]

\* Where an exception raised in a traversal lands: the catch block of
\* initReactNative, or the caller of the function run on its own.
ThrowPc == IF params.mode = "project" THEN "catch" ELSE "threw"

\* ------------------------------------------------- replaceInDirectory

\* A variant that goes from the walk straight to the rename pass.
AfterWalkRenames == IF params.mode = "project" THEN "renameIos" ELSE "renameStart"

\* Where control goes when the outermost replaceInDirectory call returns.
AfterWalk == IF params.mode = "project" THEN "fixWorkspace" ELSE "renameStart"

\* A directory entry outside the exclusion list: the recursive call.
WalkDescend ==
  /\ pc = "walk" /\ stack # <<>>
  /\ \E item \in Top.items :
       /\ item.kind = "dir"
       /\ ~WalkerSkips(Top.dir, item.name)
       /\ stack' = Append(SetTop([Top EXCEPT !.items = @ \ {item}]),
                          Frame(fs, Join(Top.dir, item.name)))
       /\ trace' = [trace EXCEPT !.walkEntered = @ \cup {item.name}]
  /\ UNCHANGED <<fs, fs0, pc, params, exitCode>>

\* A directory entry of the exclusion list: passed over.
WalkPrune ==
  /\ pc = "walk" /\ stack # <<>>
  /\ \E item \in Top.items :
       /\ item.kind = "dir"
       /\ WalkerSkips(Top.dir, item.name)
       /\ stack' = SetTop([Top EXCEPT !.items = @ \ {item}])
       /\ trace' = [trace EXCEPT !.walkPruned = @ \cup {item.name}]
  /\ UNCHANGED <<fs, fs0, pc, params, exitCode>>

\* A regular file with an allowed extension, or the Podfile: replaceInFile.
WalkReplace ==
  /\ pc = "walk" /\ stack # <<>>
  /\ \E item \in Top.items :
       /\ item.kind = "file"
       /\ IsSubstitutable(item.name)
       /\ fs' = replaceInFile(fs, Join(Top.dir, item.name), params.rules)
       /\ stack' = SetTop([Top EXCEPT !.items = @ \ {item}])
       /\ trace' = [trace EXCEPT !.touched = @ \cup {Join(Top.dir, item.name)}]
  /\ UNCHANGED <<fs0, pc, params, exitCode>>

\* Any other entry: nothing is done.
WalkIgnore ==
  /\ pc = "walk" /\ stack # <<>>
  /\ \E item \in Top.items :
       /\ item.kind # "dir"
       /\ ~(item.kind = "file" /\ IsSubstitutable(item.name))
       /\ stack' = SetTop([Top EXCEPT !.items = @ \ {item}])
  /\ UNCHANGED <<fs, fs0, pc, params, trace, exitCode>>

\* The loop of a call is over: the call returns.
WalkReturn ==
  /\ pc = "walk" /\ stack # <<>>
  /\ Top.items = {}
  /\ stack' = Pop
  /\ pc' = IF Len(stack) = 1 THEN AfterWalk ELSE pc
  /\ UNCHANGED <<fs, fs0, params, trace, exitCode>>

\* ---------------------------------------------- renameFilesAndFolders

AfterRename == IF params.mode = "project" THEN "stale" ELSE "done"

\* item.name.replace(new RegExp(oldName, 'g'), newName), joined to dirPath.
RenamedPath(dirPath, name, old, new) == Join(dirPath, RegExpReplaceAll(name, old, new))

\* A variant that renames a directory before its recursive call.
RenEnterRenameFirst(f, dirPath, item, old, new) ==
  [fs |-> IF Includes(item.name, old)
            /\ CanRename(f, Join(dirPath, item.name), RenamedPath(dirPath, item.name, old, new))
            THEN renameSync(f, Join(dirPath, item.name), RenamedPath(dirPath, item.name, old, new))
            ELSE f,
   dir |-> Join(dirPath, item.name)]

\* The recursive call on a directory entry: made on fullPath, with the
\* file system as it is.
RenEnter(f, dirPath, item, old, new) == [fs |-> f, dir |-> Join(dirPath, item.name)]

\* A directory entry outside the exclusion list: the recursive call, whose
\* readdirSync throws on a path that is gone.
RenDescend ==
  /\ pc = "rename" /\ stack # <<>>
  /\ \E item \in Top.items :
       /\ item.kind = "dir"
       /\ ~RenamerSkips(item.name)
       /\ LET e == RenEnter(fs, Top.dir, item, params.oldName, params.newName)
          IN  IF IsDir(e.fs, e.dir)
                THEN /\ fs' = e.fs
                     /\ stack' = Append(SetTop([Top EXCEPT !.items = @ \ {item}, !.cur = item]),
                                        Frame(e.fs, e.dir))
                     /\ trace' = [trace EXCEPT !.renEntered = @ \cup {item.name}]
                     /\ pc' = pc
                ELSE /\ fs' = e.fs
                     /\ stack' = <<>>
                     /\ trace' = [trace EXCEPT !.stale = TRUE]
                     /\ pc' = ThrowPc
  /\ UNCHANGED <<fs0, params, exitCode>>

\* A directory entry of the exclusion list: passed over.
RenPrune ==
  /\ pc = "rename" /\ stack # <<>>
  /\ \E item \in Top.items :
       /\ item.kind = "dir"
       /\ RenamerSkips(item.name)
       /\ stack' = SetTop([Top EXCEPT !.items = @ \ {item}])
       /\ trace' = [trace EXCEPT !.renPruned = @ \cup {item.name}]
  /\ UNCHANGED <<fs, fs0, pc, params, exitCode>>

\* fs.renameSync(fullPath, newPath) as the traversal issues it; it throws
\* when it cannot be done, and the path it is issued on may be gone.
IssueRename(fullPath, newPath, rest) ==
  IF CanRename(fs, fullPath, newPath)
    THEN /\ fs' = renameSync(fs, fullPath, newPath)
         /\ stack' = rest
         /\ trace' = trace
         /\ pc' = pc
    ELSE /\ fs' = fs
         /\ stack' = <<>>
         /\ trace' = [trace EXCEPT !.stale = @ \/ ~existsSync(fs, fullPath)]
         /\ pc' = ThrowPc

\* The recursive call on a directory returned and its name holds the token:
\* the directory is renamed.
RenReturnRename ==
  /\ pc = "rename" /\ Len(stack) >= 2
  /\ Top.items = {}
  /\ LET fr == Pop[Len(Pop)]
     IN  /\ Includes(fr.cur.name, params.oldName)
         /\ IssueRename(Join(fr.dir, fr.cur.name),
                        RenamedPath(fr.dir, fr.cur.name, params.oldName, params.newName),
                        [Pop EXCEPT ![Len(Pop)] = [fr EXCEPT !.cur = NoItem]])
  /\ UNCHANGED <<fs0, params, exitCode>>

\* The recursive call on a directory returned and its name does not hold
\* the token.
RenReturnKeep ==
  /\ pc = "rename" /\ Len(stack) >= 2
  /\ Top.items = {}
  /\ LET fr == Pop[Len(Pop)]
     IN  /\ ~Includes(fr.cur.name, params.oldName)
         /\ stack' = [Pop EXCEPT ![Len(Pop)] = [fr EXCEPT !.cur = NoItem]]
  /\ UNCHANGED <<fs, fs0, pc, params, trace, exitCode>>

\* An entry that is no directory and whose name holds the token: renamed.
RenFile ==
  /\ pc = "rename" /\ stack # <<>>
  /\ \E item \in Top.items :
       /\ item.kind # "dir"
       /\ Includes(item.name, params.oldName)
       /\ IssueRename(Join(Top.dir, item.name),
                      RenamedPath(Top.dir, item.name, params.oldName, params.newName),
                      SetTop([Top EXCEPT !.items = @ \ {item}]))
  /\ UNCHANGED <<fs0, params, exitCode>>

\* An entry that is no directory and whose name does not hold the token.
RenSkip ==
  /\ pc = "rename" /\ stack # <<>>
  /\ \E item \in Top.items :
       /\ item.kind # "dir"
       /\ ~Includes(item.name, params.oldName)
       /\ stack' = SetTop([Top EXCEPT !.items = @ \ {item}])
  /\ UNCHANGED <<fs, fs0, pc, params, trace, exitCode>>

\* The loop of the outermost call is over.
RenFinish ==
  /\ pc = "rename" /\ Len(stack) = 1
  /\ Top.items = {}
  /\ stack' = <<>>
  /\ pc' = AfterRename
  /\ UNCHANGED <<fs, fs0, params, trace, exitCode>>

Walk == WalkDescend \/ WalkPrune \/ WalkReplace \/ WalkIgnore \/ WalkReturn

Rename ==
  RenDescend \/ RenPrune \/ RenReturnRename \/ RenReturnKeep \/ RenFile \/ RenSkip \/ RenFinish

\* ------------------------------------- the two traversals on their own

\* The trees the traversals are run on hold at most MaxNodes entries, at
\* most MaxDepth levels deep.
MaxNodes == 3
MaxDepth == 3

TraverseDirNames == {Chars("TMI"), Chars("Pods"), Chars("docs"), Chars("Acme")}
TraverseFileNames == {Chars("TMI.json"), Chars("Podfile"), Chars("TMI.md")}
TraverseOtherNames == {Chars("link")}
TraverseNames == TraverseDirNames \cup TraverseFileNames \cup TraverseOtherNames

\* Every file of a tree starts with a content the rules would change.
Sentinel == Chars("TMI")

NodeOfName(name) ==
  IF name \in TraverseDirNames THEN DirNode
  ELSE IF name \in TraverseFileNames THEN FileNode(Sentinel)
  ELSE OtherNode

\* The trees (sets of paths) one more entry makes of tree T.
Grow(T) ==
  {T \cup {Join(d, nm)} :
     d \in {q \in T \cup {<<>>} : Len(q) < MaxDepth /\ (q = <<>> \/ BaseName(q) \in TraverseDirNames)},
     nm \in TraverseNames}

RECURSIVE TreesUpTo(_)
TreesUpTo(n) ==
  IF n = 0 THEN {{}}
  ELSE LET prev == TreesUpTo(n - 1) IN prev \cup UNION {Grow(T) : T \in prev}

FsOfTree(T) ==
  [p \in T \cup {<<>>} |-> IF p = <<>> THEN DirNode ELSE NodeOfName(BaseName(p))]

\* The names the new token is derived from.
TraverseProjectNames == {Chars("Acme"), Chars("TMIApp")}
TraverseBundleId == Chars("com.acme.app")

TraverseParams(name) ==
  [mode |-> "traverse",
   oldName |-> oldName,
   newName |-> toPascalCase(name),
   rules |-> replacements(toPascalCase(name), toKebabCase(name), TraverseBundleId,
                          toPascalCase(name))]

InitTraverse ==
  /\ \E T \in TreesUpTo(MaxNodes) :
       /\ fs = FsOfTree(T)
       /\ stack = <<Frame(FsOfTree(T), <<>>)>>
  /\ fs0 = fs
  /\ \E name \in TraverseProjectNames : params = TraverseParams(name)
  /\ pc = "walk"
  /\ trace = EmptyTrace
  /\ exitCode = -1

\* renameFilesAndFolders(root, oldName, newName) is called.
TraverseStartRename ==
  /\ pc = "renameStart"
  /\ stack' = <<Frame(fs, <<>>)>>
  /\ pc' = "rename"
  /\ UNCHANGED <<fs, fs0, params, trace, exitCode>>

NextTraverse == Walk \/ TraverseStartRename \/ Rename

SpecTraverse == InitTraverse /\ [][NextTraverse]_vars

\* ------------------------------------------------ project bootstrap

\* The entries of the cloned template, as paths below the target directory.
\* Every variant has package.json; the others leave parts out or add some.
P(names) == [k \in DOMAIN names |-> Chars(names[k])]

TemplateCore ==
  [p \in {P(<<"package.json">>)} |-> FileNode(Chars("{\"name\": \"tmi-rn-base\"}"))]

TemplateConfig ==
  [p \in {P(<<"src">>), P(<<"src", "shared">>), P(<<"src", "shared", "config">>)} |-> DirNode]

TemplateIos ==
  (P(<<"ios">>) :> DirNode)
  @@ (P(<<"ios", "TMI">>) :> DirNode)
  @@ (P(<<"ios", "TMI", "Info.plist">>) :> FileNode(Chars("com.tmi.app")))
  @@ (P(<<"ios", "TMI.xcodeproj">>) :> DirNode)
  @@ (P(<<"ios", "TMI.xcworkspace">>) :> DirNode)
  @@ (P(<<"ios", "TMI.xcworkspace", "contents.xcworkspacedata">>)
        :> FileNode(Chars("group:TMI.xcodeproj")))

TemplateTooling ==
  (P(<<".git">>) :> DirNode)
  @@ (P(<<"docs">>) :> DirNode)
  @@ (P(<<"docs", "TMI.md">>) :> FileNode(Chars("TMI")))
  @@ (P(<<".env.example">>) :> FileNode(Chars("API_URL=")))

TemplateAndroid ==
  [p \in {P(<<"android">>), P(<<"android", "app">>), P(<<"android", "app", "src">>),
          P(<<"android", "app", "src", "main">>),
          P(<<"android", "app", "src", "main", "java">>),
          P(<<"android", "app", "src", "main", "java", "com">>),
          P(<<"android", "app", "src", "main", "java", "com", "tmi">>)} |-> DirNode]
  @@ (P(<<"android", "app", "src", "main", "java", "com", "tmi", "MainActivity.kt">>)
        :> FileNode(Chars("package com.tmi.app")))

\* A project directory outside ios/, and an ios/ with one below Pods.
TemplateStray ==
  (P(<<"TMI.xcodeproj">>) :> DirNode)
  @@ (P(<<"app.config.json">>) :> FileNode(Chars("com.tmi.app")))

TemplatePods ==
  (P(<<"ios">>) :> DirNode)
  @@ (P(<<"ios", "Pods">>) :> DirNode)
  @@ (P(<<"ios", "Pods", "TMI.xcodeproj">>) :> DirNode)
  @@ (P(<<"ios", "TMI.xcodeproj">>) :> DirNode)
  @@ (P(<<"ios", "TMI">>) :> DirNode)
  @@ (P(<<"ios", "TMI", "TMI.entitlements">>) :> FileNode(Chars("com.tmi.app")))
  @@ (P(<<"ios", "TMI", "Images.xcassets">>) :> DirNode)

Templates ==
  [full |-> TemplateCore @@ TemplateConfig @@ TemplateIos @@ TemplateTooling,
   android |-> TemplateCore @@ TemplateConfig @@ TemplateAndroid,
   stray |-> TemplateCore @@ TemplateConfig @@ TemplateIos @@ TemplateStray,
   pods |-> TemplateCore @@ TemplateConfig @@ TemplatePods,
   bare |-> TemplateCore,
   broken |-> TemplateConfig @@ TemplateTooling]

TemplateNames == DOMAIN Templates

\* The file system with tree t placed at path dir.
Mount(f, dir, t) ==
  [q \in DOMAIN f \cup {dir} \cup {dir \o p : p \in DOMAIN t} |->
     IF q = dir THEN DirNode
     ELSE IF q \in {dir \o p : p \in DOMAIN t}
       THEN t[SubSeq(q, Len(dir) + 1, Len(q))]
     ELSE f[q]]

\* What the user may pass as args[0] (empty: no argument) and answer to the
\* prompts (empty: the default).
NoText == <<>>
ProjectArgs == {NoText, Chars("Acme"), Chars("TMI"), Chars("my-app"), Chars("9x")}
NameAnswers == {Chars("Acme"), Chars("x")}
BundleAnswers == {NoText, Chars("com.acme.app"), Chars("Acme")}
DisplayAnswers == {NoText, Chars("My App")}
FeatureAnswers ==
  {[firebase |-> TRUE, revenueCat |-> TRUE, biometric |-> TRUE, pushNotifications |-> TRUE],
   [firebase |-> FALSE, revenueCat |-> TRUE, biometric |-> FALSE, pushNotifications |-> FALSE]}

\* What the working directory may hold before the run.
WorkingDirs ==
  {(<<>> :> DirNode),
   (<<>> :> DirNode) @@ (P(<<"acme">>) :> DirNode)
     @@ (P(<<"acme", "README.md">>) :> FileNode(Chars("mine")))}

InitProject ==
  /\ fs \in WorkingDirs
  /\ fs0 = fs
  /\ \E arg \in ProjectArgs :
       params = [mode |-> "project", arg |-> arg, named |-> FALSE,
                 projectName |-> NoText, pascalName |-> NoText, kebabName |-> NoText,
                 targetDir |-> <<>>, bundleId |-> NoText, displayName |-> NoText,
                 features |-> {}, template |-> "none",
                 oldName |-> oldName, newName |-> NoText, rules |-> <<>>]
  /\ pc = "projectName"
  /\ stack = <<>>
  /\ trace = EmptyTrace
  /\ exitCode = -1

Event(e) == [trace EXCEPT !.events = Append(@, e)]
Happened(e) == \E k \in DOMAIN trace.events : trace.events[k] = e

\* throw inside the try block: control goes to the catch block.
Throw ==
  /\ pc' = "catch"
  /\ UNCHANGED <<fs, fs0, stack, params, trace, exitCode>>

Named(name) ==
  [params EXCEPT !.projectName = name]

\* STEP 1: the name is args[0], validated (an error is thrown), or is asked
\* for until validateProjectName accepts the answer.
ProjName ==
  /\ pc = "projectName"
  /\ IF params.arg = NoText
       THEN \E answer \in NameAnswers :
              IF validateProjectName(answer)
                THEN /\ params' = Named(answer)
                     /\ pc' = "checkTarget"
                     /\ UNCHANGED <<fs, fs0, stack, trace, exitCode>>
                ELSE UNCHANGED vars
       ELSE IF validateProjectName(params.arg)
         THEN /\ params' = Named(params.arg)
              /\ pc' = "checkTarget"
              /\ UNCHANGED <<fs, fs0, stack, trace, exitCode>>
         ELSE Throw

\* A variant whose check of the target directory never finds it.
TargetTakenNever(f, targetDir) == FALSE

\* fs.existsSync(targetDir)
TargetTaken(f, targetDir) == existsSync(f, targetDir)

\* The case forms and the target directory; an error is thrown when the
\* target directory exists.
ProjCheckTarget ==
  /\ pc = "checkTarget"
  /\ LET kebabName == toKebabCase(params.projectName)
         targetDir == <<kebabName>>
     IN  /\ params' = [params EXCEPT !.pascalName = toPascalCase(params.projectName),
                                     !.kebabName = kebabName,
                                     !.targetDir = targetDir,
                                     !.named = TRUE]
         /\ pc' = IF TargetTaken(fs, targetDir) THEN "catch" ELSE "bundle"
  /\ UNCHANGED <<fs, fs0, stack, trace, exitCode>>

defaultBundleId(kebabName) ==
  Chars("com.") \o ToLowerCase(RegExpReplaceAll(kebabName, Chars("-"), NoText))

\* STEP 2: the bundle identifier is asked for until validateBundleId
\* accepts the answer (or the default, for an empty answer).
ProjBundle ==
  /\ pc = "bundle"
  /\ \E answer \in BundleAnswers :
       LET bundleId == IF answer = NoText THEN defaultBundleId(params.kebabName) ELSE answer
       IN  IF validateBundleId(bundleId)
             THEN /\ params' = [params EXCEPT !.bundleId = bundleId]
                  /\ pc' = "display"
                  /\ UNCHANGED <<fs, fs0, stack, trace, exitCode>>
             ELSE UNCHANGED vars

\* STEP 3: the display name, the Pascal name by default.
ProjDisplay ==
  /\ pc = "display"
  /\ \E answer \in DisplayAnswers :
       params' = [params EXCEPT !.displayName =
                    IF answer = NoText THEN params.pascalName ELSE answer]
  /\ pc' = "features"
  /\ UNCHANGED <<fs, fs0, stack, trace, exitCode>>

\* STEP 4: the four feature choices.
ProjFeatures ==
  /\ pc = "features"
  /\ \E answer \in FeatureAnswers : params' = [params EXCEPT !.features = answer]
  /\ pc' = "confirm"
  /\ UNCHANGED <<fs, fs0, stack, trace, exitCode>>

\* STEP 5: the user goes on, or cancels: process.exit(0).
ProjConfirm ==
  /\ pc = "confirm"
  /\ \E proceed \in BOOLEAN :
       IF proceed
         THEN pc' = "clone" /\ exitCode' = exitCode
         ELSE pc' = "exit" /\ exitCode' = 0
  /\ UNCHANGED <<fs, fs0, stack, params, trace>>

\* git clone refuses a destination that exists and is not an empty directory.
CanClone(f, targetDir) ==
  targetDir \notin DOMAIN f \/ (IsDir(f, targetDir) /\ ~HasChildren(f, targetDir))

\* STEP 6: git clone --depth 1 TEMPLATE_REPO targetDir. It places the
\* template at the target directory, or fails and execSync throws.
ProjClone ==
  /\ pc = "clone"
  /\ \/ /\ CanClone(fs, params.targetDir)
        /\ \E t \in TemplateNames :
             /\ fs' = Mount(fs, params.targetDir, Templates[t])
             /\ params' = [params EXCEPT !.template = t]
        /\ trace' = [trace EXCEPT !.events = @ \o <<"clone", "cloned">>]
        /\ pc' = "cleanup"
     \/ /\ trace' = Event("clone")
        /\ pc' = "catch"
        /\ UNCHANGED <<fs, params>>
  /\ UNCHANGED <<fs0, stack, exitCode>>

\* The directories of the template removed from the clone.
ToolingDirs ==
  P(<<".git", "cli", ".beads", ".claude", ".cursor", ".github", "conductor", "docs",
      "history", "mayor", "polecats", "refinery">>)

RECURSIVE RemoveAll(_, _, _, _)
RemoveAll(f, dir, names, k) ==
  IF k > Len(names) THEN f
  ELSE RemoveAll(rmSync(f, Join(dir, names[k])), dir, names, k + 1)

\* The twelve fs.rmSync calls, then the replacements object is built and
\* replaceInDirectory(targetDir, replacements) is called.
ProjCleanup ==
  /\ pc = "cleanup"
  /\ fs' = RemoveAll(fs, params.targetDir, ToolingDirs, 1)
  /\ params' = [params EXCEPT
       !.newName = params.pascalName,
       !.rules = replacements(params.pascalName, params.kebabName, params.bundleId,
                              params.displayName)]
  /\ stack' = <<Frame(fs', params.targetDir)>>
  /\ trace' = Event("walk")
  /\ pc' = "walk"
  /\ UNCHANGED <<fs0, exitCode>>

xcworkspaceContent(pascalName) ==
  Chars("<?xml version=\"1.0\" encoding=\"UTF-8\"?>\n<Workspace\n   version = \"1.0\">\n   <FileRef\n      location = \"group:")
    \o pascalName
    \o Chars(".xcodeproj\">\n   </FileRef>\n   <FileRef\n      location = \"group:Pods/Pods.xcodeproj\">\n   </FileRef>\n</Workspace>\n")

\* "Fix xcworkspacedata": the workspace file under the Pascal name is
\* rewritten when it exists.
ProjFixWorkspace ==
  /\ pc = "fixWorkspace"
  /\ LET xcworkspaceDataPath ==
           params.targetDir \o <<Chars("ios"), params.pascalName \o Chars(".xcworkspace"),
                                 Chars("contents.xcworkspacedata")>>
     IN  IF existsSync(fs, xcworkspaceDataPath)
           THEN /\ CanWrite(fs, xcworkspaceDataPath)
                /\ fs' = writeFileSync(fs, xcworkspaceDataPath,
                                       xcworkspaceContent(params.pascalName))
                /\ trace' = [trace EXCEPT !.events = @ \o <<"walked", "xcworkspace">>]
           ELSE fs' = fs /\ trace' = Event("walked")
  /\ pc' = "packageJson"
  /\ UNCHANGED <<fs0, stack, params, exitCode>>

\* JSON.stringify of the package object: name, version and private set, bin,
\* files, repository and keywords deleted (the template's other fields are
\* left out of the model).
packageJson(kebabName) ==
  Chars("{\"name\": \"") \o kebabName \o Chars("\", \"version\": \"1.0.0\", \"private\": true}")

\* "Update package.json": readFileSync throws when the file is missing.
ProjPackageJson ==
  /\ pc = "packageJson"
  /\ LET pkgPath == Join(params.targetDir, Chars("package.json"))
     IN  IF existsSync(fs, pkgPath) /\ fs[pkgPath].kind = "file"
           THEN /\ fs' = writeFileSync(fs, pkgPath, packageJson(params.kebabName))
                /\ trace' = Event("package.json")
                /\ pc' = "appJson"
           ELSE /\ pc' = "catch"
                /\ UNCHANGED <<fs, trace>>
  /\ UNCHANGED <<fs0, stack, params, exitCode>>

appJson(pascalName, displayName) ==
  Chars("{\"name\": \"") \o pascalName \o Chars("\", \"displayName\": \"") \o displayName
    \o Chars("\"}")

\* "Update app.json": the file is replaced.
ProjAppJson ==
  /\ pc = "appJson"
  /\ LET appJsonPath == Join(params.targetDir, Chars("app.json"))
     IN  IF CanWrite(fs, appJsonPath)
           THEN /\ fs' = writeFileSync(fs, appJsonPath,
                                       appJson(params.pascalName, params.displayName))
                /\ trace' = Event("app.json")
                /\ pc' = "renameIos"
           ELSE /\ pc' = "catch"
                /\ UNCHANGED <<fs, trace>>
  /\ UNCHANGED <<fs0, stack, params, exitCode>>

iosDir == Join(params.targetDir, Chars("ios"))

\* "Rename iOS files and folders": renameFilesAndFolders(iosDir, oldName,
\* pascalName) when ios/ exists (readdirSync throws on what is no directory).
ProjRenameIos ==
  /\ pc = "renameIos"
  /\ IF existsSync(fs, iosDir)
       THEN IF IsDir(fs, iosDir)
              THEN /\ stack' = <<Frame(fs, iosDir)>>
                   /\ trace' = Event("rename")
                   /\ pc' = "rename"
              ELSE /\ pc' = "catch"
                   /\ UNCHANGED <<stack, trace>>
       ELSE /\ pc' = "android"
            /\ UNCHANGED <<stack, trace>>
  /\ UNCHANGED <<fs, fs0, params, exitCode>>

\* oldFolders: the paths removed after the rename pass.
oldFolders ==
  <<Join(iosDir, oldName), Join(iosDir, oldName \o Chars(".xcodeproj")),
    Join(iosDir, oldName \o Chars(".xcworkspace"))>>

RECURSIVE RemovePaths(_, _, _)
RemovePaths(f, paths, k) ==
  IF k > Len(paths) THEN f
  ELSE RemovePaths(IF existsSync(f, paths[k]) THEN rmSync(f, paths[k]) ELSE f, paths, k + 1)

\* The loop over oldFolders.
ProjStale ==
  /\ pc = "stale"
  /\ fs' = RemovePaths(fs, oldFolders, 1)
  /\ trace' = [trace EXCEPT !.events = @ \o <<"renamed", "stale">>]
  /\ pc' = "android"
  /\ UNCHANGED <<fs0, stack, params, exitCode>>

\* fs.cpSync(src, dst, {recursive: true})
cpSync(f, src, dst) ==
  LET copies == {Moved(q, src, dst) : q \in {r \in DOMAIN f : IsUnder(r, src)}}
  IN  [q \in DOMAIN f \cup copies |->
         IF q \in copies THEN f[src \o SubSeq(q, Len(dst) + 1, Len(q))] ELSE f[q]]

\* "Rename Android package": com/tmi is copied to the directory named
\* after the second segment of the bundle identifier, then removed.
ProjAndroid ==
  /\ pc = "android"
  /\ LET androidMainDir == params.targetDir \o P(<<"android", "app", "src", "main", "java", "com">>)
         oldPackageDir == Join(androidMainDir, Chars("tmi"))
         bundleParts == SplitDots(params.bundleId, 1, <<>>)
         newPackageName ==
           IF Len(bundleParts) > 1 THEN bundleParts[2]
           ELSE RegExpReplaceAll(params.kebabName, Chars("-"), NoText)
         newPackageDir == Join(androidMainDir, newPackageName)
     IN  fs' = IF existsSync(fs, androidMainDir) /\ existsSync(fs, oldPackageDir)
                  /\ oldPackageDir # newPackageDir
                 THEN rmSync(cpSync(fs, oldPackageDir, newPackageDir), oldPackageDir)
                 ELSE fs
  /\ pc' = "env"
  /\ UNCHANGED <<fs0, stack, params, trace, exitCode>>

\* "Create .env file": .env.example is copied when it exists.
ProjEnv ==
  /\ pc = "env"
  /\ LET envExamplePath == Join(params.targetDir, Chars(".env.example"))
         envPath == Join(params.targetDir, Chars(".env"))
     IN  fs' = IF existsSync(fs, envExamplePath)
                 THEN writeFileSync(fs, envPath, fs[envExamplePath].content)
                 ELSE fs
  /\ pc' = "featuresConfig"
  /\ UNCHANGED <<fs0, stack, params, trace, exitCode>>

BoolText(b) == IF b THEN Chars("true") ELSE Chars("false")
DevText(b) == IF b THEN Chars("!__DEV__") ELSE Chars("false")

\* The flags of features.config.ts that depend on the choices (the fixed
\* text around them is left out).
featuresConfigContent(features) ==
  Chars("FIREBASE_ENABLED: ") \o BoolText(features.firebase)
    \o Chars(", BILLING_ENABLED: ") \o DevText(features.revenueCat)
    \o Chars(", BIOMETRIC_ENABLED: ") \o BoolText(features.biometric)
    \o Chars(", PUSH_NOTIFICATIONS_ENABLED: ") \o BoolText(features.pushNotifications)
    \o Chars(", ANALYTICS_ENABLED: ") \o DevText(features.firebase)
    \o Chars(", CRASHLYTICS_ENABLED: ") \o DevText(features.firebase)
    \o Chars(", REMOTE_CONFIG_ENABLED: ") \o BoolText(features.firebase)

\* "Generate features.config.ts": writeFileSync throws when
\* src/shared/config is missing.
ProjFeaturesConfig ==
  /\ pc = "featuresConfig"
  /\ LET featuresConfigPath ==
           params.targetDir \o P(<<"src", "shared", "config", "features.config.ts">>)
     IN  IF CanWrite(fs, featuresConfigPath)
           THEN /\ fs' = writeFileSync(fs, featuresConfigPath,
                                       featuresConfigContent(params.features))
                /\ pc' = "yarn"
           ELSE /\ fs' = fs
                /\ pc' = "catch"
  /\ UNCHANGED <<fs0, stack, params, trace, exitCode>>

\* STEP 7: yarn install, which makes node_modules, or fails.
ProjYarn ==
  /\ pc = "yarn"
  /\ \/ /\ fs' = mkdirSync(fs, Join(params.targetDir, Chars("node_modules")))
        /\ pc' = "gitInit"
     \/ /\ fs' = fs
        /\ pc' = "catch"
  /\ trace' = Event("yarn")
  /\ UNCHANGED <<fs0, stack, params, exitCode>>

\* git init, which makes .git, or fails.
ProjGitInit ==
  /\ pc = "gitInit"
  /\ \/ /\ fs' = mkdirSync(fs, Join(params.targetDir, Chars(".git")))
        /\ pc' = "gitCommit"
     \/ /\ fs' = fs
        /\ pc' = "catch"
  /\ UNCHANGED <<fs0, stack, params, trace, exitCode>>

\* git add . and git commit: either may fail; on success STEP 8 prints the
\* instructions and the function returns, the process ending with code 0.
ProjGitCommit ==
  /\ pc = "gitCommit"
  /\ \/ pc' = "exit" /\ exitCode' = 0
     \/ pc' = "catch" /\ exitCode' = exitCode
  /\ UNCHANGED <<fs, fs0, stack, params, trace>>

\* The catch block: the error is printed, rl.close(), process.exit(1).
ProjCatch ==
  /\ pc = "catch"
  /\ pc' = "exit"
  /\ exitCode' = 1
  /\ UNCHANGED <<fs, fs0, stack, params, trace>>

NextProject ==
  \/ ProjName \/ ProjCheckTarget \/ ProjBundle \/ ProjDisplay \/ ProjFeatures
  \/ ProjConfirm \/ ProjClone \/ ProjCleanup
  \/ Walk
  \/ ProjFixWorkspace \/ ProjPackageJson \/ ProjAppJson \/ ProjRenameIos
  \/ Rename
  \/ ProjStale \/ ProjAndroid \/ ProjEnv \/ ProjFeaturesConfig
  \/ ProjYarn \/ ProjGitInit \/ ProjGitCommit \/ ProjCatch

SpecProject == InitProject /\ [][NextProject]_vars

\* ------------------------------------------------- feature generator

\* const capitalize = str => str.charAt(0).toUpperCase() + str.slice(1)
capitalize(str) == IF str = <<>> THEN <<>> ELSE <<ToUpperChar(str[1])>> \o Tail(str)

\* str.split(/[-_]/): the segments between single separators.
RECURSIVE SplitWords(_, _, _)
SplitWords(s, i, cur) ==
  IF i > Len(s) THEN <<cur>>
  ELSE IF s[i] \in {"-", "_"} THEN <<cur>> \o SplitWords(s, i + 1, <<>>)
  ELSE SplitWords(s, i + 1, Append(cur, s[i]))

RECURSIVE JoinWords(_, _)
JoinWords(words, k) ==
  IF k > Len(words) THEN <<>> ELSE words[k] \o JoinWords(words, k + 1)

\* A variant that capitalizes the first word only.
pascalCaseFirstOnly(str) == capitalize(JoinWords(SplitWords(str, 1, <<>>), 1))

\* const pascalCase = str => str.split(/[-_]/).map(capitalize).join('')
pascalCase(str) ==
  LET words == SplitWords(str, 1, <<>>)
  IN  JoinWords([k \in DOMAIN words |-> capitalize(words[k])], 1)

camelCase(str) ==
  LET pascal == pascalCase(str)
  IN  IF pascal = <<>> THEN <<>> ELSE <<ToLowerChar(pascal[1])>> \o Tail(pascal)

startsWith(str, prefix) == HasAt(str, prefix, 1)

\* A variant that takes the first argument, flag or not.
FindNameAny(args, k) == IF k > Len(args) THEN NoText ELSE args[k]

\* args.find(arg => !arg.startsWith('--')): the empty text when there is none.
RECURSIVE FindName(_, _)
FindName(args, k) ==
  IF k > Len(args) THEN NoText
  ELSE IF ~startsWith(args[k], Chars("--")) THEN args[k]
  ELSE FindName(args, k + 1)

ArgsInclude(args, flag) == \E k \in DOMAIN args : args[k] = Chars(flag)

\* The templates: the lines that carry the identifiers, the fixed text
\* between them shortened.
entityTemplate(Feature) ==
  Chars("export interface ") \o Feature \o Chars(" {}\nexport interface Create") \o Feature
    \o Chars("Request {}\nexport interface Update") \o Feature
    \o Chars("Request {}\nexport interface ") \o Feature \o Chars("Error {}\n")

repositoryInterfaceTemplate(Feature) ==
  Chars("export interface I") \o Feature \o Chars("Repository {}\n")

dataSourceTemplate(Feature, feature) ==
  Chars("export class ") \o Feature \o Chars("DataSource {}\nexport const ") \o feature
    \o Chars("DataSource = new ") \o Feature \o Chars("DataSource();\n")

repositoryImplTemplate(Feature) ==
  Chars("export class ") \o Feature \o Chars("RepositoryImpl implements I") \o Feature
    \o Chars("Repository {}\n")

sliceTemplate(Feature, feature) ==
  Chars("export const fetch") \o Feature \o Chars("s = createAsyncThunk<")
    \o Feature \o Chars("[]>('") \o feature \o Chars("/fetchAll');\nexport const fetch")
    \o Feature \o Chars("ById = createAsyncThunk<") \o Feature \o Chars(">('")
    \o feature \o Chars("/fetchById');\nexport default ") \o feature
    \o Chars("Slice.reducer;\n")

screenTemplate(Feature) ==
  Chars("export default function ") \o Feature \o Chars("Screen() {}\n")

dataIndexContent(Feature, feature, flags) ==
  IF flags.noSlice
    THEN Chars("export * from './datasources';\nexport * from './repositories';\n")
    ELSE Chars("export {default as ") \o feature \o Chars("Reducer, fetch") \o Feature
           \o Chars("s, fetch") \o Feature \o Chars("ById} from './") \o feature
           \o Chars("Slice';\nexport * from './datasources';\nexport * from './repositories';\n")

\* A variant that leaves --no-slice out of the test.
moduleContentUnlessUiOnly(Feature, feature, flags) ==
  IF flags.uiOnly
    THEN Chars("import {") \o Feature \o Chars("Screen} from './ui/screens';\nexport const ")
           \o feature \o Chars("Module = {routes};\n")
    ELSE Chars("import ") \o feature \o Chars("Reducer from './data/") \o feature
           \o Chars("Slice';\nimport {") \o Feature
           \o Chars("Screen} from './ui/screens';\nexport const ") \o feature
           \o Chars("Module = {slices, routes};\n")

moduleContent(Feature, feature, flags) ==
  IF flags.uiOnly \/ flags.noSlice
    THEN Chars("import {") \o Feature \o Chars("Screen} from './ui/screens';\nexport const ")
           \o feature \o Chars("Module = {routes};\n")
    ELSE Chars("import ") \o feature \o Chars("Reducer from './data/") \o feature
           \o Chars("Slice';\nimport {") \o Feature
           \o Chars("Screen} from './ui/screens';\nexport const ") \o feature
           \o Chars("Module = {slices, routes};\n")

featureIndexContent(feature, flags) ==
  IF flags.uiOnly
    THEN Chars("export * from './ui';\nexport {") \o feature \o Chars("Module} from './module';\n")
    ELSE Chars("export * from './ui';\nexport * from './data';\nexport * from './domain';\nexport {")
           \o feature \o Chars("Module} from './module';\n")

Dir(path) == [op |-> "createDir", path |-> path, content |-> <<>>]
File(path, content) == [op |-> "createFile", path |-> path, content |-> content]
T(str) == Chars(str)

\* A variant that makes the domain and data layers whatever the flags.
WantsLayersAlways(flags) == TRUE

\* if (!flags.uiOnly)
WantsLayers(flags) == ~flags.uiOnly

\* if (!flags.noSlice), inside the block of the layers
WantsSlice(flags) == ~flags.noSlice

\* CREATE STRUCTURE: the createDir and createFile calls of the script, in
\* order, with paths below featurePath.
DomainStatements(fp, Feature, feature, flags) ==
  << Dir(fp \o <<T("domain"), T("entities")>>),
     File(fp \o <<T("domain"), T("entities"), Feature \o T(".ts")>>, entityTemplate(Feature)),
     File(fp \o <<T("domain"), T("entities"), T("index.ts")>>,
          T("export * from './") \o Feature \o T("';\n")),
     Dir(fp \o <<T("domain"), T("repositories")>>),
     File(fp \o <<T("domain"), T("repositories"), T("I") \o Feature \o T("Repository.ts")>>,
          repositoryInterfaceTemplate(Feature)),
     File(fp \o <<T("domain"), T("repositories"), T("index.ts")>>,
          T("export * from './I") \o Feature \o T("Repository';\n")),
     Dir(fp \o <<T("domain"), T("usecases")>>),
     File(fp \o <<T("domain"), T("usecases"), T("index.ts")>>, T("// Export usecases here\n")),
     File(fp \o <<T("domain"), T("index.ts")>>,
          T("export * from './entities';\nexport * from './repositories';\nexport * from './usecases';\n")),
     Dir(fp \o <<T("data"), T("datasources")>>),
     File(fp \o <<T("data"), T("datasources"), Feature \o T("DataSource.ts")>>,
          dataSourceTemplate(Feature, feature)),
     File(fp \o <<T("data"), T("datasources"), T("index.ts")>>,
          T("export * from './") \o Feature \o T("DataSource';\n")),
     Dir(fp \o <<T("data"), T("repositories")>>),
     File(fp \o <<T("data"), T("repositories"), Feature \o T("RepositoryImpl.ts")>>,
          repositoryImplTemplate(Feature)),
     File(fp \o <<T("data"), T("repositories"), T("index.ts")>>,
          T("export * from './") \o Feature \o T("RepositoryImpl';\n")) >>
  \o (IF WantsSlice(flags)
        THEN <<File(fp \o <<T("data"), feature \o T("Slice.ts")>>, sliceTemplate(Feature, feature))>>
        ELSE <<>>)
  \o <<File(fp \o <<T("data"), T("index.ts")>>, dataIndexContent(Feature, feature, flags))>>

UiStatements(fp, Feature, feature, flags) ==
  << Dir(fp \o <<T("ui"), T("screens")>>),
     File(fp \o <<T("ui"), T("screens"), Feature \o T("Screen.tsx")>>, screenTemplate(Feature)),
     File(fp \o <<T("ui"), T("screens"), T("index.ts")>>,
          T("export {default as ") \o Feature \o T("Screen} from './") \o Feature \o T("Screen';\n")),
     Dir(fp \o <<T("ui"), T("components")>>),
     File(fp \o <<T("ui"), T("components"), T("index.ts")>>, T("// Export components here\n")),
     Dir(fp \o <<T("ui"), T("hooks")>>),
     File(fp \o <<T("ui"), T("hooks"), T("index.ts")>>, T("// Export hooks here\n")),
     File(fp \o <<T("ui"), T("index.ts")>>,
          T("export * from './screens';\nexport * from './components';\nexport * from './hooks';\n")),
     File(fp \o <<T("module.ts")>>, moduleContent(Feature, feature, flags)),
     File(fp \o <<T("index.ts")>>, featureIndexContent(feature, flags)) >>

Script(featureName, flags) ==
  LET fp == <<featureName>>
      Feature == pascalCase(featureName)
      feature == camelCase(featureName)
  IN  <<Dir(fp)>>
      \o (IF WantsLayers(flags) THEN DomainStatements(fp, Feature, feature, flags) ELSE <<>>)
      \o UiStatements(fp, Feature, feature, flags)

\* A variant that writes the file whether it exists or not.
createFileAlways(f, filePath, content) == writeFileSync(f, filePath, content)

\* function createFile(filePath, content)
createFile(f, filePath, content) ==
  IF ~existsSync(f, filePath) THEN writeFileSync(f, filePath, content) ELSE f

\* function createDir(dir)
createDir(f, dir) == IF ~existsSync(f, dir) THEN mkdirSync(f, dir) ELSE f

\* The generator is run at most MaxRuns times on the same tree.
MaxRuns == 2

FeatureNames == {Chars("user-profile"), Chars("order_item")}

\* The argument lists of a run for feature name n.
FeatureArgLists(n) ==
  { <<n>>, <<n, Chars("--ui-only")>>, <<n, Chars("--no-slice")>>,
    <<Chars("--no-slice"), n, Chars("--ui-only")>>, <<Chars("--ui-only")>>, <<>> }

\* What the features directory may hold before the first run, for feature
\* name n: hand-written files where the generator puts its own, and a file
\* where it wants a directory.
HandWritten == FileNode(Chars("// mine"))

ExistingPieces(n) ==
  { (<<n>> :> DirNode) @@ (<<n, T("module.ts")>> :> HandWritten),
    (<<n>> :> DirNode) @@ (<<n, T("data")>> :> DirNode)
      @@ (<<n, T("data"), T("index.ts")>> :> HandWritten),
    (<<n>> :> DirNode) @@ (<<n, T("domain")>> :> HandWritten) }

RECURSIVE Overlay(_)
Overlay(pieces) ==
  IF pieces = {} THEN (<<>> :> DirNode)
  ELSE LET x == CHOOSE y \in pieces : TRUE IN x @@ Overlay(pieces \ {x})

InitFeature ==
  /\ \E n \in FeatureNames :
       /\ params = [mode |-> "feature", name |-> n, args |-> <<>>, featureName |-> NoText,
                    flags |-> [uiOnly |-> FALSE, noSlice |-> FALSE]]
       /\ \E pieces \in SUBSET ExistingPieces(n) : fs = Overlay(pieces)
  /\ fs0 = fs
  /\ pc = "start"
  /\ stack = <<>>
  /\ trace = EmptyTrace
  /\ exitCode = -1

\* The first line console.error prints when the name is missing.
usage == Chars("Usage: yarn generate-feature <feature-name> [--ui-only] [--no-slice]")

\* The script starts: the name and the flags are read from the arguments;
\* without a name the usage is printed and the process exits with code 1.
FeatStart ==
  /\ pc = "start"
  /\ \E args \in FeatureArgLists(params.name) :
       LET featureName == FindName(args, 1)
           flags == [uiOnly |-> ArgsInclude(args, "--ui-only"),
                     noSlice |-> ArgsInclude(args, "--no-slice")]
       IN  /\ params' = [params EXCEPT !.args = args, !.featureName = featureName,
                                       !.flags = flags]
           /\ trace' = Event([args |-> args, before |-> fs,
                               stderr |-> IF featureName = NoText THEN usage ELSE NoText])
           /\ IF featureName = NoText
                THEN pc' = "exit" /\ exitCode' = 1 /\ stack' = <<>>
                ELSE pc' = "script" /\ exitCode' = exitCode
                     /\ stack' = Script(featureName, flags)
  /\ UNCHANGED <<fs, fs0>>

\* An exception nobody catches ends the process with code 1.
Uncaught ==
  /\ pc' = "exit"
  /\ exitCode' = 1
  /\ stack' = <<>>
  /\ fs' = fs

\* The next statement is a createDir call.
FeatCreateDir ==
  /\ pc = "script" /\ stack # <<>>
  /\ Head(stack).op = "createDir"
  /\ IF existsSync(fs, Head(stack).path) \/ CanMkdir(fs, Head(stack).path)
       THEN /\ fs' = createDir(fs, Head(stack).path)
            /\ stack' = Tail(stack)
            /\ UNCHANGED <<pc, exitCode>>
       ELSE Uncaught
  /\ UNCHANGED <<fs0, params, trace>>

\* The next statement is a createFile call.
FeatCreateFile ==
  /\ pc = "script" /\ stack # <<>>
  /\ Head(stack).op = "createFile"
  /\ IF existsSync(fs, Head(stack).path) \/ CanWrite(fs, Head(stack).path)
       THEN /\ fs' = createFile(fs, Head(stack).path, Head(stack).content)
            /\ stack' = Tail(stack)
            /\ UNCHANGED <<pc, exitCode>>
       ELSE Uncaught
  /\ UNCHANGED <<fs0, params, trace>>

\* The script is over: the summary is printed and the process ends.
FeatDone ==
  /\ pc = "script" /\ stack = <<>>
  /\ pc' = "exit"
  /\ exitCode' = 0
  /\ UNCHANGED <<fs, fs0, stack, params, trace>>

\* The generator is run again on the tree the last run left.
FeatAgain ==
  /\ pc = "exit"
  /\ Len(trace.events) < MaxRuns
  /\ pc' = "start"
  /\ exitCode' = -1
  /\ UNCHANGED <<fs, fs0, stack, params, trace>>

NextFeature == FeatStart \/ FeatCreateDir \/ FeatCreateFile \/ FeatDone \/ FeatAgain

SpecFeature == InitFeature /\ [][NextFeature]_vars

\* ------------------------------------- replaceInFile on its own

\* The text a pattern of the rule set is written to find: its source with
\* the escapes taken off.
RECURSIVE Unescape(_)
Unescape(src) ==
  IF src = <<>> THEN <<>>
  ELSE IF src[1] = "\\" /\ Len(src) >= 2 THEN <<src[2]>> \o Unescape(From(src, 3))
  ELSE <<src[1]>> \o Unescape(From(src, 2))

\* The compiled pattern of src matches somewhere in text.
Test(text, src) == \E i \in 1..Len(text) : MatchesAt(text, CompilePattern(src), i)

RulesFile == <<Chars("app.json")>>

RulesProjectNames == {Chars("Acme"), Chars("my-app"), Chars("TMIApp")}
RulesDisplayAnswers == {NoText, Chars("My App")}

\* A text with the legacy token both inside the three project file names
\* and on its own.
NamespacedAndBare == Chars("TMI.app TMI.xcodeproj TMI.xcworkspace TMI")

\* A text with other characters where the bundle identifier has its dots.
Lookalike == Chars("com_tmi_app")

\* The contents of the file: the text of each pattern of the rule set,
\* files of the template kind, and a text no rule matches.
RulesTexts ==
  LET rules == replacements(NoText, NoText, NoText, NoText)
  IN  {Unescape(rules[k][1]) : k \in DOMAIN rules}
        \cup { Chars("{\"name\": \"TMI\", \"displayName\": \"TMI\"}"),
               Chars("import 'tmi-rn-base'; // TMI.xcworkspace"),
               NamespacedAndBare, Lookalike,
               Chars("nothing to replace") }

InitRules ==
  /\ \E name \in RulesProjectNames, display \in RulesDisplayAnswers :
       LET pascalName == toPascalCase(name)
           kebabName == toKebabCase(name)
           bundleId == defaultBundleId(kebabName)
           displayName == IF display = NoText THEN pascalName ELSE display
       IN  params = [mode |-> "rules", pascalName |-> pascalName, kebabName |-> kebabName,
                     bundleId |-> bundleId, displayName |-> displayName,
                     rules |-> replacements(pascalName, kebabName, bundleId, displayName)]
  /\ \/ fs = (<<>> :> DirNode)
     \/ \E text \in RulesTexts : fs = (<<>> :> DirNode) @@ (RulesFile :> FileNode(text))
  /\ fs0 = fs
  /\ pc = "replaceInFile"
  /\ stack = <<>>
  /\ trace = EmptyTrace
  /\ exitCode = -1

\* if (!fs.existsSync(filePath)) return;
RulesMissing ==
  /\ pc = "replaceInFile"
  /\ ~existsSync(fs, RulesFile)
  /\ pc' = "done"
  /\ UNCHANGED <<fs, fs0, stack, params, trace, exitCode>>

\* let content = fs.readFileSync(filePath, 'utf8');
RulesRead ==
  /\ pc = "replaceInFile"
  /\ existsSync(fs, RulesFile)
  /\ stack' = <<[k |-> 1, content |-> fs[RulesFile].content]>>
  /\ pc' = "loop"
  /\ UNCHANGED <<fs, fs0, params, trace, exitCode>>

\* One turn of the loop: content = content.replace(new RegExp(from, 'g'), to),
\* with a record of whether the pattern was found.
RulesTurn ==
  /\ pc = "loop"
  /\ Top.k <= Len(params.rules)
  /\ LET rule == params.rules[Top.k]
     IN  /\ stack' = <<[k |-> Top.k + 1,
                        content |-> RegExpReplaceAll(Top.content, rule[1], rule[2])]>>
         /\ trace' = Event([rule |-> Top.k, text |-> Top.content,
                             found |-> Test(Top.content, rule[1])])
  /\ UNCHANGED <<fs, fs0, pc, params, exitCode>>

\* fs.writeFileSync(filePath, content, 'utf8');
RulesWrite ==
  /\ pc = "loop"
  /\ Top.k > Len(params.rules)
  /\ fs' = writeFileSync(fs, RulesFile, Top.content)
  /\ stack' = <<>>
  /\ pc' = "done"
  /\ UNCHANGED <<fs0, params, trace, exitCode>>

NextRules == RulesMissing \/ RulesRead \/ RulesTurn \/ RulesWrite

SpecRules == InitRules /\ [][NextRules]_vars

\* ------------------------------------------------------ umbrella CLI

\* The own keys of the commands object.
RegisteredCommands == {Chars("init-rn")}

\* The keys the commands object inherits from Object.prototype that the
\* model tries, with what a call of the value does: the value is a function
\* that returns, a function that throws on an undefined this, or an object
\* that cannot be called.
InheritedReturning == {Chars("constructor"), Chars("toString")}
InheritedThrowing == {Chars("hasOwnProperty"), Chars("__proto__")}

\* commands[command]: an own key, an inherited one, or undefined.
Lookup(command) ==
  IF command \in RegisteredCommands THEN "own"
  ELSE IF command \in InheritedReturning THEN "returns"
  ELSE IF command \in InheritedThrowing THEN "throws"
  ELSE "undefined"

\* args[0] of the command line (empty: no argument).
CliCommands ==
  {NoText, Chars("--help"), Chars("-h"), Chars("--version"), Chars("-v"),
   Chars("init-rn"), Chars("init"), Chars("init-next")}
    \cup InheritedReturning \cup InheritedThrowing

InitCli ==
  /\ fs \in WorkingDirs
  /\ fs0 = fs
  /\ \E command \in CliCommands, arg \in ProjectArgs :
       params = [mode |-> "project", command |-> command, arg |-> arg, named |-> FALSE,
                 projectName |-> NoText, pascalName |-> NoText, kebabName |-> NoText,
                 targetDir |-> <<>>, bundleId |-> NoText, displayName |-> NoText,
                 features |-> {}, template |-> "none",
                 oldName |-> oldName, newName |-> NoText, rules |-> <<>>]
  /\ pc = "main"
  /\ stack = <<>>
  /\ trace = EmptyTrace
  /\ exitCode = -1

\* main(): help, version, unknown command, or the call of the handler with
\* the rest of the arguments; an exception of the call is caught and the
\* process exits with code 1.
CliMain ==
  /\ pc = "main"
  /\ LET command == params.command
     IN  IF command = NoText \/ command \in {Chars("--help"), Chars("-h")}
           THEN /\ trace' = Event("help")
                /\ pc' = "exit" /\ exitCode' = 0
         ELSE IF command \in {Chars("--version"), Chars("-v")}
           THEN /\ trace' = Event("version")
                /\ pc' = "exit" /\ exitCode' = 0
         ELSE IF Lookup(command) = "undefined"
           THEN /\ trace' = [trace EXCEPT !.events = @ \o <<"unknown", "help">>]
                /\ pc' = "exit" /\ exitCode' = 1
         ELSE IF Lookup(command) = "own"
           THEN /\ trace' = Event("handler")
                /\ pc' = "projectName" /\ exitCode' = exitCode
         ELSE IF Lookup(command) = "returns"
           THEN /\ trace' = Event("handler")
                /\ pc' = "exit" /\ exitCode' = 0
         ELSE /\ trace' = [trace EXCEPT !.events = @ \o <<"handler", "error">>]
              /\ pc' = "exit" /\ exitCode' = 1
  /\ UNCHANGED <<fs, fs0, stack, params>>

NextCli == CliMain \/ NextProject

SpecCli == InitCli /\ [][NextCli]_vars

\* ------------------------------------------- case forms on their own

\* The names tried are the texts of up to MaxLen characters over a lower
\* case letter, an upper case letter, a digit and the two separators.
MaxLen == 3

CaseAlphabet == {"a", "B", "9", "-", "_"}

CaseInputs == UNION {[1..n -> CaseAlphabet] : n \in 0..MaxLen}

InitCase ==
  /\ \E input \in CaseInputs, deriver \in {"toPascalCase", "pascalCase"} :
       params = [mode |-> "case", deriver |-> deriver, input |-> input,
                 pascal |-> NoText, other |-> NoText]
  /\ fs = (<<>> :> DirNode)
  /\ fs0 = fs
  /\ pc = "input"
  /\ stack = <<>>
  /\ trace = EmptyTrace
  /\ exitCode = -1

\* Project mode: args[0] reaches toPascalCase and toKebabCase when
\* validateProjectName accepts it, else an error is thrown.
CaseProject ==
  /\ pc = "input"
  /\ params.deriver = "toPascalCase"
  /\ IF params.input # NoText /\ validateProjectName(params.input)
       THEN /\ params' = [params EXCEPT !.pascal = toPascalCase(params.input),
                                        !.other = toKebabCase(params.input)]
            /\ pc' = "derived"
       ELSE /\ params' = params
            /\ pc' = "rejected"
  /\ UNCHANGED <<fs, fs0, stack, trace, exitCode>>

\* Feature mode: the argument reaches pascalCase and camelCase when it is
\* the feature name, else the usage is printed.
CaseFeature ==
  /\ pc = "input"
  /\ params.deriver = "pascalCase"
  /\ LET featureName == FindName(<<params.input>>, 1)
     IN  IF featureName # NoText
           THEN /\ params' = [params EXCEPT !.pascal = pascalCase(featureName),
                                            !.other = camelCase(featureName)]
                /\ pc' = "derived"
           ELSE /\ params' = params
                /\ pc' = "rejected"
  /\ UNCHANGED <<fs, fs0, stack, trace, exitCode>>

NextCase == CaseProject \/ CaseFeature

SpecCase == InitCase /\ [][NextCase]_vars

\* ------------------------------------------------- claims: helpers

\* p lies below a directory whose name is in excl.
BelowExcluded(p, excl) == \E k \in 1..(Len(p) - 1) : p[k] \in excl

HoldsToken(p, token) == \E k \in DOMAIN p : Includes(p[k], token)

\* p with the token replaced in every component.
FullyRenamed(p, old, new) == [k \in DOMAIN p |-> RegExpReplaceAll(p[k], old, new)]

\* ---------------------------------------- claims: project bootstrap

\* C1: whenever the run ends in failure after the target directory was
\* created, the target directory does not exist.
C1_FailureRemovesTarget ==
  (pc = "exit" /\ exitCode = 1 /\ Happened("cloned")) => ~existsSync(fs, params.targetDir)

\* C2: when the target path exists before the run, the run fails with a
\* non-zero exit before any mutation: from the check on, control is in the
\* catch block or the process has exited with code 1, the clone was never
\* invoked and the file system is the one the run started from.
C2_ExistingTargetUntouched ==
  (params.named /\ existsSync(fs0, params.targetDir)) =>
    /\ pc \in {"catch", "exit"}
    /\ pc = "exit" => exitCode = 1
    /\ ~Happened("clone")
    /\ fs = fs0

\* The run has exited on a target directory that existed, with a file in it.
C2_Witness ==
  /\ pc = "exit" /\ exitCode = 1
  /\ params.named
  /\ HasChildren(fs0, params.targetDir)
  /\ params.targetDir # <<>>

TemplateOfRun == Templates[params.template]

\* The files of the fixture: substitutable files with content com.tmi.app
\* that the clean-up leaves and the Tree Walker reaches.
FixtureFiles(t) ==
  {p \in DOMAIN t : /\ t[p].kind = "file"
                    /\ t[p].content = oldBundleId
                    /\ IsSubstitutable(BaseName(p))
                    /\ ~BelowExcluded(p, WalkerExcluded)
                    /\ \A k \in DOMAIN ToolingDirs : p[1] # ToolingDirs[k]}

\* The directories of the fixture named TMI.xcodeproj.
FixtureProjectDirs(t) ==
  {p \in DOMAIN t : t[p].kind = "dir" /\ BaseName(p) = Chars("TMI.xcodeproj")}

\* The successful run of the scenario: project name Acme, bundle identifier
\* com.acme.app, on a fixture with such a file and such a directory.
C6_Scenario ==
  /\ pc = "exit" /\ exitCode = 0 /\ Happened("cloned")
  /\ params.projectName = Chars("Acme")
  /\ params.bundleId = Chars("com.acme.app")
  /\ FixtureFiles(TemplateOfRun) # {}
  /\ FixtureProjectDirs(TemplateOfRun) # {}

TargetEntries(f) == {p \in DOMAIN f : p # params.targetDir /\ IsUnder(p, params.targetDir)}

\* Relative path p of the template, below the target directory.
InTarget(p) == params.targetDir \o p

\* The files of the target whose content is com.acme.app with no TMI in it.
SubstitutedFiles ==
  {q \in TargetEntries(fs) : /\ fs[q].kind = "file"
                             /\ fs[q].content = Chars("com.acme.app")
                             /\ ~Includes(fs[q].content, oldName)}

C6_Outcome ==
  /\ Cardinality(SubstitutedFiles) >= Cardinality(FixtureFiles(TemplateOfRun))
  /\ \A q \in TargetEntries(fs) : fs[q].content # oldBundleId
  /\ \E q \in TargetEntries(fs) : fs[q].kind = "dir" /\ BaseName(q) = Chars("Acme.xcodeproj")
  /\ \A q \in TargetEntries(fs) : ~HoldsToken(q, oldName)

\* C6 as stated: after the run of the scenario the content occurrence is
\* com.acme.app, the directory is named Acme.xcodeproj, and no path of the
\* tree and no processed content holds TMI.
C6_Scenario_AnyTree == C6_Scenario => C6_Outcome

\* Every entry of template t named after TMI lies under ios/, below no
\* directory the Structural Renamer passes over.
TokenOnlyUnderIos(t) ==
  \A p \in DOMAIN t :
    Includes(BaseName(p), oldName) /\ (\A k \in DOMAIN ToolingDirs : p[1] # ToolingDirs[k]) =>
      /\ Len(p) >= 2 /\ p[1] = Chars("ios")
      /\ ~BelowExcluded(p, RenamerExcluded)

\* C6 as amended: the same for a fixture whose entries named after TMI,
\* TMI.xcodeproj among them, all lie under ios/ and below none of
\* node_modules, .git, .yarn, Pods, build.
C6_Scenario_UnderIos ==
  (C6_Scenario /\ TokenOnlyUnderIos(TemplateOfRun)) =>
    /\ C6_Outcome
    /\ \A p \in FixtureProjectDirs(TemplateOfRun) :
         IsDir(fs, InTarget(FullyRenamed(p, oldName, params.pascalName)))
    /\ \A p \in FixtureFiles(TemplateOfRun) :
         LET q == InTarget(FullyRenamed(p, oldName, params.pascalName))
         IN  q \in DOMAIN fs /\ fs[q].content = Chars("com.acme.app")

\* The scenario has run on the template with ios/TMI/Info.plist and
\* ios/TMI.xcodeproj.
C6_Witness ==
  /\ C6_Scenario
  /\ params.template = "full"
  /\ IsDir(fs, P(<<"acme", "ios", "Acme.xcodeproj">>))
  /\ P(<<"acme", "ios", "Acme", "Info.plist">>) \in DOMAIN fs

\* ------------------------------------------------ claims: traversals

RenamerReach(f) == {p \in DOMAIN f : ~BelowExcluded(p, RenamerExcluded)}

NeverStale == ~trace.stale

NestedUnderRenamedParent ==
  pc = "done" =>
    \A p \in RenamerReach(fs0) :
      LET q == FullyRenamed(p, params.oldName, params.newName)
      IN  q \in DOMAIN fs /\ fs[q].kind = fs0[p].kind

\* C7 as stated: no rename or readdir is ever issued on a path that is
\* gone, and after a completed pass no path component anywhere in the tree
\* holds the legacy token and every entry lies under its renamed parent.
C7_NoTokenAnywhere ==
  /\ NeverStale
  /\ NestedUnderRenamedParent
  /\ pc = "done" => \A p \in DOMAIN fs : ~HoldsToken(p, params.oldName)

\* C7 as amended: the same, where "no component holds the legacy token"
\* is said of the entries the pass reaches (those not below node_modules,
\* .git, .yarn, Pods or build) and for a new token that does not itself
\* hold the legacy token.
C7_RenameAfterRecurse ==
  /\ NeverStale
  /\ NestedUnderRenamedParent
  /\ (pc = "done" /\ ~Includes(params.newName, params.oldName)) =>
       \A p \in RenamerReach(fs) : ~HoldsToken(p, params.oldName)

\* A completed pass over a tree with a parent and a child both named after
\* the token: the child lies under the renamed parent.
C7_Witness ==
  /\ pc = "done"
  /\ params.newName = Chars("Acme")
  /\ <<Chars("TMI"), Chars("TMI")>> \in DOMAIN fs0
  /\ <<Chars("Acme"), Chars("Acme")>> \in DOMAIN fs
  /\ <<Chars("TMI")>> \notin DOMAIN fs

WalkerUnreached(f) == {p \in DOMAIN f : f[p].kind = "file" /\ BelowExcluded(p, WalkerExcluded)}

\* C8: replaceInDirectory neither reads nor writes a file below a directory
\* of its exclusion list: no such file is handed to replaceInFile, and until
\* the walk has returned each has the content it started with.
C8_ExcludedUntouched ==
  \A p \in WalkerUnreached(fs0) :
    /\ p \notin trace.touched
    /\ pc \in {"walk", "renameStart"} => (p \in DOMAIN fs /\ fs[p] = fs0[p])

\* The walk has returned, it passed over a directory below one it entered,
\* and a file in the directory passed over holds text the rules match.
C8_Witness ==
  /\ pc = "renameStart"
  /\ trace.walkEntered # {} /\ trace.walkPruned # {}
  /\ \E p \in WalkerUnreached(fs0) :
       /\ Len(p) = 3
       /\ IsSubstitutable(BaseName(p))
       /\ ApplyRules(fs0[p].content, params.rules, 1) # fs0[p].content

\* C9: a directory name is passed over by replaceInDirectory exactly when
\* it is passed over by renameFilesAndFolders: no name is entered by one
\* traversal and passed over by the other.
C9_SameExclusionSet ==
  /\ trace.walkPruned \cap trace.renEntered = {}
  /\ trace.renPruned \cap trace.walkEntered = {}

\* ------------------------------------------- claims: feature generator

\* The run under way, or the last one: its number, its record, its tree.
ThisRun == Len(trace.events)
Before(k) == trace.events[k].before
After(k) == IF k = ThisRun THEN fs ELSE Before(k + 1)

\* The forms the two feature names are expected to take, written out.
ExpectedPascal(n) == IF n = Chars("user-profile") THEN Chars("UserProfile") ELSE Chars("OrderItem")
ExpectedCamel(n) == IF n = Chars("user-profile") THEN Chars("userProfile") ELSE Chars("orderItem")

\* C3: a run never changes a file that existed before it: every file of the
\* tree a run started from is in the tree with the same content from then
\* on, and a run with the arguments of the run before it leaves the tree
\* exactly as that run left it.
C3_ExistingFilesKept ==
  /\ \A k \in 1..ThisRun : \A p \in DOMAIN Before(k) :
       Before(k)[p].kind = "file" => (p \in DOMAIN fs /\ fs[p] = Before(k)[p])
  /\ \A k \in 2..ThisRun :
       trace.events[k].args = trace.events[k - 1].args => After(k) = Before(k)

\* A second run with the arguments of the first has ended normally on a tree
\* that held a hand-written module.ts before the first run, which wrote the
\* other files.
C3_Witness ==
  /\ ThisRun = 2 /\ pc = "exit" /\ exitCode = 0
  /\ trace.events[2].args = trace.events[1].args
  /\ <<params.name, Chars("module.ts")>> \in DOMAIN fs0
  /\ <<params.name, Chars("index.ts")>> \in DOMAIN fs \ DOMAIN fs0

FeaturePath == <<params.featureName>>
FreshRun ==
  /\ ThisRun >= 1
  /\ params.featureName # NoText
  /\ FeaturePath \notin DOMAIN Before(ThisRun)
Created == DOMAIN fs \ DOMAIN Before(ThisRun)

\* C4: a --ui-only run on a feature path that did not exist creates nothing
\* but the feature directory, its index.ts and module.ts and entries under
\* ui/; when it ends there is no domain/ or data/, index.ts re-exports './ui'
\* and the module descriptor only, and module.ts names no slice.
C4_UiOnlyTree ==
  (FreshRun /\ params.flags.uiOnly) =>
    /\ \A p \in Created :
         \/ p \in {FeaturePath, FeaturePath \o <<Chars("index.ts")>>,
                   FeaturePath \o <<Chars("module.ts")>>}
         \/ IsUnder(p, FeaturePath \o <<Chars("ui")>>)
    /\ \A p \in DOMAIN fs :
         /\ ~IsUnder(p, FeaturePath \o <<Chars("domain")>>)
         /\ ~IsUnder(p, FeaturePath \o <<Chars("data")>>)
    /\ pc = "exit" =>
         /\ exitCode = 0
         /\ IsDir(fs, FeaturePath \o <<Chars("ui"), Chars("screens")>>)
         /\ fs[FeaturePath \o <<Chars("index.ts")>>] =
              FileNode(Chars("export * from './ui';\nexport {")
                         \o ExpectedCamel(params.featureName)
                         \o Chars("Module} from './module';\n"))
         /\ ~Includes(fs[FeaturePath \o <<Chars("module.ts")>>].content, Chars("Slice"))
         /\ ~Includes(fs[FeaturePath \o <<Chars("module.ts")>>].content, Chars("./data"))

\* A --ui-only run on a fresh feature path has ended.
C4_Witness ==
  /\ FreshRun /\ params.flags.uiOnly /\ pc = "exit"
  /\ FeaturePath \o <<Chars("ui"), Chars("index.ts")>> \in Created

EntityPath == FeaturePath \o <<Chars("domain"), Chars("entities"),
                               ExpectedPascal(params.featureName) \o Chars(".ts")>>
SlicePath == FeaturePath \o <<Chars("data"),
                              ExpectedCamel(params.featureName) \o Chars("Slice.ts")>>
ScreenPath == FeaturePath \o <<Chars("ui"), Chars("screens"),
                               ExpectedPascal(params.featureName) \o Chars("Screen.tsx")>>
HoldsText(p, text) ==
  /\ p \in DOMAIN fs
  /\ fs[p].kind = "file"
  /\ Includes(fs[p].content, text)

\* C5: when a run on a fresh feature path has ended, with default flags the
\* entity, slice and screen files are at the paths made of the Pascal and
\* camel forms of the name, each holds the Pascal form, and the slice file
\* defines fetch<P>s; whatever the flags, the slice file is there exactly
\* when neither --ui-only nor --no-slice was given.
C5_NamedFiles ==
  (FreshRun /\ pc = "exit") =>
    /\ (~params.flags.uiOnly /\ ~params.flags.noSlice) =>
         /\ \A p \in {EntityPath, SlicePath, ScreenPath} :
              HoldsText(p, ExpectedPascal(params.featureName))
         /\ HoldsText(SlicePath, Chars("export const fetch")
                                   \o ExpectedPascal(params.featureName) \o Chars("s = "))
    /\ SlicePath \in DOMAIN fs <=> (~params.flags.uiOnly /\ ~params.flags.noSlice)
    /\ \A p \in Created :
         (Len(p) = 3 /\ p[2] = Chars("data") /\ Includes(p[3], Chars("Slice")))
           => p = SlicePath

\* A run with default flags on a fresh feature path has ended and wrote the
\* slice file.
C5_Witness ==
  /\ FreshRun /\ pc = "exit"
  /\ ~params.flags.uiOnly /\ ~params.flags.noSlice
  /\ SlicePath \in Created

\* ------------------------------------------------ claims: rule set

\* Rule i is the more specific of the pair (i, j): the pattern of rule j
\* matches inside the text the pattern of rule i is written to find.
MoreSpecific(i, j) ==
  /\ i # j
  /\ Test(Unescape(params.rules[i][1]), params.rules[j][1])

Turns == {trace.events[k].rule : k \in DOMAIN trace.events}

\* C10: the rule set is ordered most-specific-first: a rule has its turn
\* only after every rule more specific than it had its own, and a more
\* specific rule whose pattern is in the file finds it when its turn comes.
C10_MostSpecificFirst ==
  /\ \A j \in Turns : \A i \in DOMAIN params.rules : MoreSpecific(i, j) => i \in Turns
  /\ \A k \in DOMAIN trace.events :
       LET i == trace.events[k].rule
       IN  ((\E j \in DOMAIN params.rules : MoreSpecific(i, j))
              /\ Test(fs0[RulesFile].content, params.rules[i][1]))
             => trace.events[k].found

\* C11: one application of the rule set to the text with the namespaced and
\* the bare occurrences of TMI replaces each occurrence once: the result is
\* the same text with the Pascal name where TMI was.
C11_ReplacedOnce ==
  (pc = "done" /\ RulesFile \in DOMAIN fs0 /\ fs0[RulesFile].content = NamespacedAndBare) =>
    fs[RulesFile].content =
      params.pascalName \o Chars(".app ") \o params.pascalName \o Chars(".xcodeproj ")
        \o params.pascalName \o Chars(".xcworkspace ") \o params.pascalName

\* C12: a rule changes the text at its turn only if the text holds the
\* legacy token of the rule character for character.
C12_LiteralMatch ==
  \A k \in DOMAIN trace.events :
    LET e == trace.events[k]
    IN  e.found => Includes(e.text, Unescape(params.rules[e.rule][1]))

\* -------------------------------------------------- claims: umbrella CLI

\* C13: when the first argument is neither a registered command nor one of
\* --help, -h, --version, -v, main prints the help, exits with a non-zero
\* code and calls no handler.
C13_UnknownCommand ==
  (pc # "main" /\ params.command # NoText
     /\ params.command \notin {Chars("init-rn"), Chars("--help"), Chars("-h"),
                               Chars("--version"), Chars("-v")}) =>
    /\ pc = "exit"
    /\ exitCode # 0
    /\ Happened("help")
    /\ ~Happened("handler")

\* ------------------------------------- claims: feature generator, again

NoNameIn(args) == \A i \in DOMAIN args : HasAt(args[i], Chars("--"), 1)

\* C14: a run whose arguments all start with "--" (or that has none) prints
\* the usage on the error stream, ends with exit code 1 and leaves the tree
\* as it found it.
C14_MissingName ==
  \A k \in 1..ThisRun :
    NoNameIn(trace.events[k].args) =>
      /\ HasAt(trace.events[k].stderr, Chars("Usage:"), 1)
      /\ After(k) = Before(k)
      /\ (k = ThisRun /\ pc # "start") => (pc = "exit" /\ exitCode = 1)

\* A run with a flag and no name has ended.
C14_Witness ==
  /\ ThisRun >= 1 /\ pc = "exit"
  /\ trace.events[ThisRun].args = <<Chars("--ui-only")>>

ModulePath == <<params.name, Chars("module.ts")>>
DataIndexPath == <<params.name, Chars("data"), Chars("index.ts")>>
SliceFile == <<params.name, Chars("data"), ExpectedCamel(params.name) \o Chars("Slice.ts")>>
SliceRef(prefix) == Chars(prefix) \o ExpectedCamel(params.name) \o Chars("Slice'")

\* C19: starting from a tree without the feature path, whatever the runs
\* and their flags, when module.ts imports './data/<camel>Slice' or
\* data/index.ts exports from './<camel>Slice' the slice file is there.
C19_NoMissingSlice ==
  (<<params.name>> \notin DOMAIN fs0) =>
    /\ HoldsText(ModulePath, SliceRef("'./data/")) => SliceFile \in DOMAIN fs
    /\ HoldsText(DataIndexPath, SliceRef("'./")) => SliceFile \in DOMAIN fs

\* Two runs with different flags have ended on a tree that started without
\* the feature path, and module.ts imports the slice.
C19_Witness ==
  /\ <<params.name>> \notin DOMAIN fs0
  /\ ThisRun = 2 /\ pc = "exit"
  /\ trace.events[1].args # trace.events[2].args
  /\ HoldsText(ModulePath, SliceRef("'./data/"))

\* ------------------------------------------------- claims: case forms

\* C15: the Pascal form of a name that reached toPascalCase or pascalCase
\* holds no "-" and no "_" and starts with an upper case letter.
C15_PascalForm ==
  pc = "derived" =>
    /\ \A i \in DOMAIN params.pascal : params.pascal[i] \notin {"-", "_"}
    /\ params.pascal # <<>>
    /\ IsUpper(params.pascal[1])

\* ------------------------------------------ claims: traversals, again

\* The name ends in one of the allowed extensions, or is Podfile.
AllowedName(name) ==
  \/ \E e \in extensions : Len(name) > Len(e) /\ HasAt(name, e, Len(name) - Len(e) + 1)
  \/ name = Chars("Podfile")

Eligible(p) ==
  /\ fs0[p].kind = "file"
  /\ ~BelowExcluded(p, WalkerExcluded)
  /\ AllowedName(BaseName(p))

\* C17: replaceInDirectory hands a file to replaceInFile exactly when it is
\* a regular file outside the excluded directories whose name has an
\* allowed extension or is Podfile; when the walk has returned these files
\* hold the substituted content, and every other entry is as it was, during
\* the walk and after it.
C17_WalkFrame ==
  pc \in {"walk", "renameStart"} =>
    \A p \in DOMAIN fs0 :
      /\ p \in DOMAIN fs
      /\ p \in trace.touched => Eligible(p)
      /\ ~Eligible(p) => fs[p] = fs0[p]
      /\ (pc = "renameStart" /\ Eligible(p)) =>
           /\ p \in trace.touched
           /\ fs[p] = FileNode(ApplyRules(fs0[p].content, params.rules, 1))

\* The walk has returned on a tree with a Podfile, which it rewrote, and a
\* file of another extension holding the same text, which it left.
C17_Witness ==
  /\ pc = "renameStart"
  /\ \E p, q \in DOMAIN fs0 \ {<<>>} :
       /\ BaseName(p) = Chars("Podfile") /\ Eligible(p) /\ fs[p] # fs0[p]
       /\ BaseName(q) = Chars("TMI.md") /\ fs0[q].kind = "file" /\ fs[q] = fs0[q]

\* --------------------------------- claims: project bootstrap, again

FirstIndex(e) == CHOOSE k \in DOMAIN trace.events :
                   trace.events[k] = e /\ \A j \in 1..(k - 1) : trace.events[j] # e

\* Event a happened before event b, if b happened.
Precedes(a, b) == Happened(b) => (Happened(a) /\ FirstIndex(a) < FirstIndex(b))

StalePaths == {oldFolders[k] : k \in DOMAIN oldFolders}

\* The step removes one of the stale paths: the path goes and nothing takes
\* its place (a rename keeps the number of entries).
DeletesStale ==
  /\ \E p \in StalePaths : p \in DOMAIN fs /\ p \notin DOMAIN fs'
  /\ Cardinality(DOMAIN fs') < Cardinality(DOMAIN fs)

\* C16: the rename pass over ios/ starts only after the content walk, the
\* package.json rewrite and the app.json rewrite are done, in that order,
\* and a stale path is deleted only by the step that follows the return of
\* the rename pass, never before or during the pass.
C16_PipelineOrder ==
  /\ [](/\ (pc \in {"rename", "stale"} \/ Happened("rename")) =>
             /\ pc # "walk"
             /\ Happened("walked") /\ Happened("package.json") /\ Happened("app.json")
        /\ Precedes("walk", "walked")
        /\ Precedes("walked", "package.json")
        /\ Precedes("package.json", "app.json")
        /\ Precedes("app.json", "rename")
        /\ Precedes("rename", "stale")
        /\ pc = "stale" => (stack = <<>> /\ Happened("rename"))
        /\ Happened("stale") => pc \notin {"walk", "rename", "stale"})
  /\ [][DeletesStale => (pc = "stale" /\ stack = <<>>)]_vars

\* The stale paths were deleted after a rename pass that left them in place
\* (the project is named TMI), in a run on the full template.
C16_Witness ==
  /\ Happened("stale")
  /\ params.template = "full"
  /\ params.pascalName = oldName
  /\ Join(iosDir, oldName) \notin DOMAIN fs

HasIosProject == params.template \in {"full", "stray"}

\* C18: after the rename pass and the deletion of the stale paths, the
\* three directories of the template's ios/ are there under the Pascal name,
\* with what they held.
C18_RenamedSurvive ==
  (Happened("stale") /\ HasIosProject) =>
    /\ IsDir(fs, Join(iosDir, params.pascalName))
    /\ existsSync(fs, iosDir \o <<params.pascalName, Chars("Info.plist")>>)
    /\ IsDir(fs, Join(iosDir, params.pascalName \o Chars(".xcodeproj")))
    /\ IsDir(fs, Join(iosDir, params.pascalName \o Chars(".xcworkspace")))
    /\ existsSync(fs, iosDir \o <<params.pascalName \o Chars(".xcworkspace"),
                                  Chars("contents.xcworkspacedata")>>)

\* C20: at the end of a successful run on a template with
\* ios/TMI.xcworkspace/contents.xcworkspacedata, the workspace file under
\* the Pascal name holds the fixed workspace content.
C20_WorkspaceFixed ==
  (pc = "exit" /\ exitCode = 0 /\ Happened("cloned") /\ HasIosProject) =>
    LET path == iosDir \o <<params.pascalName \o Chars(".xcworkspace"),
                            Chars("contents.xcworkspacedata")>>
    IN  /\ path \in DOMAIN fs
        /\ fs[path] = FileNode(xcworkspaceContent(params.pascalName))

====
